---- MODULE Spec2Model ----
(***************************************************************************)
(* Model of GDJS/Runtime/gd.js: the gdjs namespace with its two type       *)
(* registries (objectsTypes, behaviorsTypes), the five lifecycle callback  *)
(* lists, the registration / lookup functions and the deprecated           *)
(* registerGlobalCallbacks shim.                                           *)
(*                                                                         *)
(* One action models one call of one gdjs function.  The variable `call`   *)
(* holds what the caller of the most recent call observed: the function    *)
(* and arguments, the value returned, the error thrown (if any) and the    *)
(* lines the call wrote to the console.  The variable `array` is the array  *)
(* Array.prototype.remove is called on.                                    *)
(***************************************************************************)
EXTENDS Integers, Sequences, FiniteSets

VARIABLES objectsTypes, behaviorsTypes, callbacks, console, call, array

vars == <<objectsTypes, behaviorsTypes, callbacks, console, call, array>>

(* ---------------------------- input domains --------------------------- *)

\* Longest total number of registered callbacks explored.
MaxCallbacks == 2

\* Type identifiers passed to the register functions ("" is the default type).
Ids == {"", "Foo"}

\* The JavaScript value undefined: a value that is no string identifier and
\* no constructor.
undefined == "<undefined>"

\* Names passed to the lookup functions.
Names == Ids \cup {undefined}

\* Constructors passed to the register functions.
Ctors == {"A", "Default"}

\* Callback functions passed to the register*Callback functions.
Callbacks == {"c1", "c2"}

\* The five lifecycle kinds, named after the gdjs fields that hold them.
Kinds ==
  {"callbacksRuntimeSceneLoaded", "callbacksRuntimeSceneUnloaded",
   "callbacksRuntimeScenePaused", "callbacksRuntimeSceneResumed",
   "callbacksObjectDeletedFromScene"}

\* Consoles a host may provide before the script is loaded: console.log is
\* always there, console.warn and console.error may be missing.
HostConsoles == {{"log"} \cup S : S \in SUBSET {"warn", "error"}}

(* ------------------------------ helpers ------------------------------- *)

Range(f) == {f[x] : x \in DOMAIN f}

\* Number of callbacks held in all five lists together.
TotalCallbacks ==
  Len(callbacks["callbacksRuntimeSceneLoaded"])
  + Len(callbacks["callbacksRuntimeSceneUnloaded"])
  + Len(callbacks["callbacksRuntimeScenePaused"])
  + Len(callbacks["callbacksRuntimeSceneResumed"])
  + Len(callbacks["callbacksObjectDeletedFromScene"])

(* ------------------------------ Hashtable ----------------------------- *)
\* A Hashtable is modelled as a function from the keys it holds to values.

EmptyHashtable == [k \in {} |-> undefined]

\* Hashtable.put(key, value): keys are unique, the last put of a key wins.
Put(h, key, value) ==
  [k \in DOMAIN h \cup {key} |-> IF k = key THEN value ELSE h[k]]

\* Hashtable.containsKey(key)
ContainsKey(h, key) == key \in DOMAIN h

\* Hashtable.get(key): the entry of a key that is present.  For a key that
\* is absent the outcome is not defined by contract: the call may hand back
\* undefined or fail.
Get(h, key) ==
  IF key \in DOMAIN h
  THEN {[ret |-> h[key], thrown |-> "none"]}
  ELSE {[ret |-> undefined, thrown |-> "none"],
        [ret |-> undefined, thrown |-> "Error"]}

(* ------------------------------- console ------------------------------ *)

\* gd.js:275-276: console.warn and console.error fall back to console.log.
PolyfillConsole(host) ==
  host \cup (IF "warn" \in host THEN {} ELSE {"warn"})
       \cup (IF "error" \in host THEN {} ELSE {"error"})

\* String conversion of a name inside a string concatenation.
ToStr(name) == IF name = undefined THEN "undefined" ELSE name

\* Calling console.<method>(text): writes one line, or throws a TypeError
\* when console has no such method.
ConsoleCall(method, text) ==
  IF method \in console
  THEN [thrown |-> "none", out |-> <<text>>]
  ELSE [thrown |-> "TypeError", out |-> <<>>]

(* ------------------------------- Init --------------------------------- *)

NoCall ==
  [fn |-> "none", name |-> undefined, arg |-> undefined,
   ret |-> undefined, thrown |-> "none", out |-> <<>>]

Init ==
  /\ objectsTypes = EmptyHashtable
  /\ behaviorsTypes = EmptyHashtable
  /\ callbacks = [k \in Kinds |-> <<>>]
  /\ \E host \in HostConsoles : console = PolyfillConsole(host)
  /\ call = NoCall
  /\ array = <<>>

\* What a call that returns nothing and writes nothing leaves in `call`.
Returned(fn, name, arg) ==
  [fn |-> fn, name |-> name, arg |-> arg,
   ret |-> undefined, thrown |-> "none", out |-> <<>>]

(* ---------------------------- registration ---------------------------- *)

registerObject(objectTypeName, Ctor) ==
  /\ objectsTypes' = Put(objectsTypes, objectTypeName, Ctor)
  /\ call' = Returned("registerObject", objectTypeName, Ctor)
  /\ UNCHANGED <<behaviorsTypes, callbacks, console, array>>

\* A copy of registerBehavior that still puts into gdjs.objectsTypes.
registerBehavior_ObjectsTypes(behaviorTypeName, Ctor) ==
  /\ objectsTypes' = Put(objectsTypes, behaviorTypeName, Ctor)
  /\ call' = Returned("registerBehavior", behaviorTypeName, Ctor)
  /\ UNCHANGED <<behaviorsTypes, callbacks, console, array>>

registerBehavior(behaviorTypeName, Ctor) ==
  /\ behaviorsTypes' = Put(behaviorsTypes, behaviorTypeName, Ctor)
  /\ call' = Returned("registerBehavior", behaviorTypeName, Ctor)
  /\ UNCHANGED <<objectsTypes, callbacks, console, array>>

\* unshift instead of push: the new callback goes to the front.
Push_Unshift(kind, callback) ==
  [callbacks EXCEPT ![kind] = <<callback>> \o @]

\* push that skips a callback the list already holds.
Push_Dedup(kind, callback) ==
  [callbacks EXCEPT ![kind] =
     IF \E i \in 1..Len(@) : @[i] = callback THEN @ ELSE Append(@, callback)]

\* Array.prototype.push on the list gdjs[kind].
Push(kind, callback) ==
  [callbacks EXCEPT ![kind] = Append(@, callback)]

registerRuntimeSceneLoadedCallback(callback) ==
  /\ TotalCallbacks < MaxCallbacks
  /\ callbacks' = Push("callbacksRuntimeSceneLoaded", callback)
  /\ call' = Returned("registerRuntimeSceneLoadedCallback", undefined, callback)
  /\ UNCHANGED <<objectsTypes, behaviorsTypes, console, array>>

registerRuntimeSceneUnloadedCallback(callback) ==
  /\ TotalCallbacks < MaxCallbacks
  /\ callbacks' = Push("callbacksRuntimeSceneUnloaded", callback)
  /\ call' = Returned("registerRuntimeSceneUnloadedCallback", undefined, callback)
  /\ UNCHANGED <<objectsTypes, behaviorsTypes, console, array>>

registerRuntimeScenePausedCallback(callback) ==
  /\ TotalCallbacks < MaxCallbacks
  /\ callbacks' = Push("callbacksRuntimeScenePaused", callback)
  /\ call' = Returned("registerRuntimeScenePausedCallback", undefined, callback)
  /\ UNCHANGED <<objectsTypes, behaviorsTypes, console, array>>

\* A copy of registerRuntimeSceneResumedCallback that still pushes onto
\* gdjs.callbacksRuntimeScenePaused.
registerRuntimeSceneResumedCallback_Paused(callback) ==
  /\ TotalCallbacks < MaxCallbacks
  /\ callbacks' = Push("callbacksRuntimeScenePaused", callback)
  /\ call' = Returned("registerRuntimeSceneResumedCallback", undefined, callback)
  /\ UNCHANGED <<objectsTypes, behaviorsTypes, console, array>>

registerRuntimeSceneResumedCallback(callback) ==
  /\ TotalCallbacks < MaxCallbacks
  /\ callbacks' = Push("callbacksRuntimeSceneResumed", callback)
  /\ call' = Returned("registerRuntimeSceneResumedCallback", undefined, callback)
  /\ UNCHANGED <<objectsTypes, behaviorsTypes, console, array>>

registerObjectDeletedFromSceneCallback(callback) ==
  /\ TotalCallbacks < MaxCallbacks
  /\ callbacks' = Push("callbacksObjectDeletedFromScene", callback)
  /\ call' = Returned("registerObjectDeletedFromSceneCallback", undefined, callback)
  /\ UNCHANGED <<objectsTypes, behaviorsTypes, console, array>>

\* The deprecated shim: its whole body is one call of console.warning.
registerGlobalCallbacks ==
  /\ LET w == ConsoleCall("warning",
                <<"You're calling gdjs.registerGlobalCallbacks. This method is now useless and you must not call it anymore.">>)
     IN call' = [fn |-> "registerGlobalCallbacks", name |-> undefined,
                 arg |-> undefined, ret |-> undefined,
                 thrown |-> w.thrown, out |-> w.out]
  /\ UNCHANGED <<objectsTypes, behaviorsTypes, callbacks, console, array>>

\* clearGlobalCallbacks without its last assignment.
clearGlobalCallbacks_FourLists ==
  /\ callbacks' =
       [callbacks EXCEPT !["callbacksRuntimeSceneLoaded"] = <<>>,
                         !["callbacksRuntimeSceneUnloaded"] = <<>>,
                         !["callbacksRuntimeScenePaused"] = <<>>,
                         !["callbacksRuntimeSceneResumed"] = <<>>]
  /\ call' = Returned("clearGlobalCallbacks", undefined, undefined)
  /\ UNCHANGED <<objectsTypes, behaviorsTypes, console, array>>

\* clearGlobalCallbacks that also replaces the object registry by a new
\* Hashtable.
clearGlobalCallbacks_AndObjects ==
  /\ callbacks' = [k \in Kinds |-> <<>>]
  /\ objectsTypes' = EmptyHashtable
  /\ call' = Returned("clearGlobalCallbacks", undefined, undefined)
  /\ UNCHANGED <<behaviorsTypes, console, array>>

clearGlobalCallbacks ==
  /\ callbacks' =
       [callbacks EXCEPT !["callbacksRuntimeSceneLoaded"] = <<>>,
                         !["callbacksRuntimeSceneUnloaded"] = <<>>,
                         !["callbacksRuntimeScenePaused"] = <<>>,
                         !["callbacksRuntimeSceneResumed"] = <<>>,
                         !["callbacksObjectDeletedFromScene"] = <<>>]
  /\ call' = Returned("clearGlobalCallbacks", undefined, undefined)
  /\ UNCHANGED <<objectsTypes, behaviorsTypes, console, array>>

(* ------------------------------- lookup ------------------------------- *)

\* The warning line of a lookup that found nothing, as the pieces of the
\* string concatenation  what + ' type "' + name + '" was not found.'
NotFoundText(what, name) ==
  <<what \o " type \"", ToStr(name), "\" was not found.">>

\* A copy of getObjectConstructor that hands back get(name) on the fallback
\* path instead of get('').
getObjectConstructorResult_GetName(name) ==
  IF name # undefined /\ ContainsKey(objectsTypes, name)
  THEN {[ret |-> g.ret, thrown |-> g.thrown, out |-> <<>>] :
          g \in Get(objectsTypes, name)}
  ELSE LET w == ConsoleCall("warn", NotFoundText("Object", name))
       IN IF w.thrown # "none"
          THEN {[ret |-> undefined, thrown |-> w.thrown, out |-> w.out]}
          ELSE {[ret |-> g.ret, thrown |-> g.thrown, out |-> w.out] :
                  g \in Get(objectsTypes, name)}

\* A copy of getObjectConstructor whose fallback path writes no warning.
getObjectConstructorResult_Silent(name) ==
  IF name # undefined /\ ContainsKey(objectsTypes, name)
  THEN {[ret |-> g.ret, thrown |-> g.thrown, out |-> <<>>] :
          g \in Get(objectsTypes, name)}
  ELSE {[ret |-> g.ret, thrown |-> g.thrown, out |-> <<>>] :
          g \in Get(objectsTypes, "")}

\* The outcomes of gdjs.getObjectConstructor(name): the value returned, the
\* error thrown and the lines written to the console.
getObjectConstructorResult(name) ==
  IF name # undefined /\ ContainsKey(objectsTypes, name)
  THEN {[ret |-> g.ret, thrown |-> g.thrown, out |-> <<>>] :
          g \in Get(objectsTypes, name)}
  ELSE LET w == ConsoleCall("warn", NotFoundText("Object", name))
       IN IF w.thrown # "none"
          THEN {[ret |-> undefined, thrown |-> w.thrown, out |-> w.out]}
          ELSE {[ret |-> g.ret, thrown |-> g.thrown, out |-> w.out] :
                  g \in Get(objectsTypes, "")}

\* A copy of getBehaviorConstructor that still reads gdjs.objectsTypes on
\* the found path.
getBehaviorConstructorResult_ObjectsTypes(name) ==
  IF name # undefined /\ ContainsKey(objectsTypes, name)
  THEN {[ret |-> g.ret, thrown |-> g.thrown, out |-> <<>>] :
          g \in Get(objectsTypes, name)}
  ELSE LET w == ConsoleCall("warn", NotFoundText("Behavior", name))
       IN IF w.thrown # "none"
          THEN {[ret |-> undefined, thrown |-> w.thrown, out |-> w.out]}
          ELSE {[ret |-> g.ret, thrown |-> g.thrown, out |-> w.out] :
                  g \in Get(behaviorsTypes, "")}

\* A copy of getBehaviorConstructor that writes its warning before it looks
\* the name up, so also when the name is found.
getBehaviorConstructorResult_WarnFirst(name) ==
  LET w == ConsoleCall("warn", NotFoundText("Behavior", name))
  IN IF w.thrown # "none"
     THEN {[ret |-> undefined, thrown |-> w.thrown, out |-> w.out]}
     ELSE {[ret |-> g.ret, thrown |-> g.thrown, out |-> w.out] :
             g \in Get(behaviorsTypes,
                       IF name # undefined /\ ContainsKey(behaviorsTypes, name)
                       THEN name ELSE "")}

\* A copy of getBehaviorConstructor whose fallback path still reads
\* gdjs.objectsTypes.
getBehaviorConstructorResult_ObjectsDefault(name) ==
  IF name # undefined /\ ContainsKey(behaviorsTypes, name)
  THEN {[ret |-> g.ret, thrown |-> g.thrown, out |-> <<>>] :
          g \in Get(behaviorsTypes, name)}
  ELSE LET w == ConsoleCall("warn", NotFoundText("Behavior", name))
       IN IF w.thrown # "none"
          THEN {[ret |-> undefined, thrown |-> w.thrown, out |-> w.out]}
          ELSE {[ret |-> g.ret, thrown |-> g.thrown, out |-> w.out] :
                  g \in Get(objectsTypes, "")}

\* The outcomes of gdjs.getBehaviorConstructor(name).
getBehaviorConstructorResult(name) ==
  IF name # undefined /\ ContainsKey(behaviorsTypes, name)
  THEN {[ret |-> g.ret, thrown |-> g.thrown, out |-> <<>>] :
          g \in Get(behaviorsTypes, name)}
  ELSE LET w == ConsoleCall("warn", NotFoundText("Behavior", name))
       IN IF w.thrown # "none"
          THEN {[ret |-> undefined, thrown |-> w.thrown, out |-> w.out]}
          ELSE {[ret |-> g.ret, thrown |-> g.thrown, out |-> w.out] :
                  g \in Get(behaviorsTypes, "")}

\* A copy of getObjectConstructor that keeps what the fallback path found
\* under the name it was asked for.
getObjectConstructor_Caching(name) ==
  /\ \E r \in getObjectConstructorResult(name) :
       /\ call' = [fn |-> "getObjectConstructor", name |-> name, arg |-> undefined,
                   ret |-> r.ret, thrown |-> r.thrown, out |-> r.out]
       /\ objectsTypes' =
            IF r.out # <<>> /\ r.thrown = "none" /\ r.ret # undefined
               /\ name # undefined
            THEN Put(objectsTypes, name, r.ret)
            ELSE objectsTypes
  /\ UNCHANGED <<behaviorsTypes, callbacks, console, array>>

getObjectConstructor(name) ==
  /\ \E r \in getObjectConstructorResult(name) :
       call' = [fn |-> "getObjectConstructor", name |-> name, arg |-> undefined,
                ret |-> r.ret, thrown |-> r.thrown, out |-> r.out]
  /\ UNCHANGED <<objectsTypes, behaviorsTypes, callbacks, console, array>>

getBehaviorConstructor(name) ==
  /\ \E r \in getBehaviorConstructorResult(name) :
       call' = [fn |-> "getBehaviorConstructor", name |-> name, arg |-> undefined,
                ret |-> r.ret, thrown |-> r.thrown, out |-> r.out]
  /\ UNCHANGED <<objectsTypes, behaviorsTypes, callbacks, console, array>>

(* -------------------------------- Next -------------------------------- *)

Next ==
  \/ \E id \in Ids, c \in Ctors : registerObject(id, c)
  \/ \E id \in Ids, c \in Ctors : registerBehavior(id, c)
  \/ \E cb \in Callbacks : registerRuntimeSceneLoadedCallback(cb)
  \/ \E cb \in Callbacks : registerRuntimeSceneUnloadedCallback(cb)
  \/ \E cb \in Callbacks : registerRuntimeScenePausedCallback(cb)
  \/ \E cb \in Callbacks : registerRuntimeSceneResumedCallback(cb)
  \/ \E cb \in Callbacks : registerObjectDeletedFromSceneCallback(cb)
  \/ registerGlobalCallbacks
  \/ clearGlobalCallbacks
  \/ \E n \in Names : getObjectConstructor(n)
  \/ \E n \in Names : getBehaviorConstructor(n)

Spec == Init /\ [][Next]_vars

TypeOK ==
  /\ DOMAIN objectsTypes \subseteq Ids
  /\ DOMAIN behaviorsTypes \subseteq Ids
  /\ Range(objectsTypes) \subseteq Ctors
  /\ Range(behaviorsTypes) \subseteq Ctors
  /\ \A k \in Kinds : \A i \in 1..Len(callbacks[k]) : callbacks[k][i] \in Callbacks
  /\ console \subseteq {"log", "warn", "error"}

(* ------------------------ Array.prototype.remove ---------------------- *)

\* Longest array explored.
MaxLen == 4

\* Array elements.
Elems == {"x", "y", "z"}

Arrays == UNION {[1..n -> Elems] : n \in 0..MaxLen}

\* The loop of remove with the bound  i < len - 1.
RECURSIVE RemoveShift_ShortLoop(_, _, _)
RemoveShift_ShortLoop(a, i, len) ==
  IF i < len - 1
  THEN RemoveShift_ShortLoop([a EXCEPT ![i + 1] = a[i + 2]], i + 1, len)
  ELSE a

\* The loop  for (i = from; i < len; i++) this[i] = this[i + 1];  the
\* element of index i is a[i + 1] here, sequences being counted from 1.
RECURSIVE RemoveShift(_, _, _)
RemoveShift(a, i, len) ==
  IF i < len
  THEN RemoveShift([a EXCEPT ![i + 1] = a[i + 2]], i + 1, len)
  ELSE a

\* this.length = len: keeps the first len elements; a negative length is a
\* RangeError and leaves the array as the loop left it.
SetLength(a, len) ==
  IF len < 0
  THEN [array |-> a, thrown |-> "RangeError"]
  ELSE [array |-> SubSeq(a, 1, len), thrown |-> "none"]

Array_remove_ShortLoop(a, from) ==
  LET len == Len(a) - 1
  IN SetLength(RemoveShift_ShortLoop(a, from, len), len)

\* Array.prototype.remove(from) on the array a, for from >= 0.
Array_remove(a, from) ==
  LET len == Len(a) - 1
  IN SetLength(RemoveShift(a, from, len), len)

remove(from) ==
  /\ LET r == Array_remove(array, from)
     IN /\ array' = r.array
        /\ call' = [fn |-> "Array.prototype.remove", name |-> undefined,
                    arg |-> from, ret |-> undefined,
                    thrown |-> r.thrown, out |-> <<>>]
  /\ UNCHANGED <<objectsTypes, behaviorsTypes, callbacks, console>>

InitArray ==
  /\ objectsTypes = EmptyHashtable
  /\ behaviorsTypes = EmptyHashtable
  /\ callbacks = [k \in Kinds |-> <<>>]
  /\ \E host \in HostConsoles : console = PolyfillConsole(host)
  /\ call = NoCall
  /\ array \in Arrays

\* remove is called with an index of the array or with its length.
NextArray == \E from \in 0..Len(array) : remove(from)

SpecArray == InitArray /\ [][NextArray]_vars

(* ---------------------------- random numbers ------------------------- *)

\* Largest absolute value of an argument explored.
MaxArg == 3

\* Math.random() gives a number r with 0 <= r < 1; the values explored are
\* the multiples n / RandomResolution of a fixed fraction, each stood for by
\* its numerator n.
RandomResolution == 8

MathRandom == 0..(RandomResolution - 1)

\* Integer arguments.
Args == (0 - MaxArg)..MaxArg

\* Steps: 0 stands for the steps that are not positive.
Steps == 0..MaxArg

\* gdjs.random without its first line.
randomValue_NoGuard(max, n) ==
  (n * (max + 1)) \div RandomResolution

\* gdjs.random(max) when Math.random() gives n / RandomResolution:
\* Math.floor((n / RandomResolution) * (max + 1)).
randomValue(max, n) ==
  IF max <= 0 THEN 0
  ELSE (n * (max + 1)) \div RandomResolution

\* gdjs.randomInRange(min, max)
randomInRangeValue(min, max, n) == min + randomValue(max - min, n)

\* gdjs.randomWithStep(min, max, step); Math.floor((max - min) / step) is
\* the integer quotient rounded down.
randomWithStepValue(min, max, step, n) ==
  IF step <= 0 THEN min + randomValue(max - min, n)
  ELSE min + randomValue((max - min) \div step, n) * step

\* What a call that returns a value and writes nothing leaves in `call`.
ReturnedValue(fn, args, value) ==
  [fn |-> fn, name |-> undefined, arg |-> args,
   ret |-> value, thrown |-> "none", out |-> <<>>]

random(max) ==
  /\ \E n \in MathRandom :
       call' = ReturnedValue("random", <<max>>, randomValue(max, n))
  /\ UNCHANGED <<objectsTypes, behaviorsTypes, callbacks, console, array>>

randomInRange(min, max) ==
  /\ \E n \in MathRandom :
       call' = ReturnedValue("randomInRange", <<min, max>>,
                             randomInRangeValue(min, max, n))
  /\ UNCHANGED <<objectsTypes, behaviorsTypes, callbacks, console, array>>

randomWithStep(min, max, step) ==
  /\ \E n \in MathRandom :
       call' = ReturnedValue("randomWithStep", <<min, max, step>>,
                             randomWithStepValue(min, max, step, n))
  /\ UNCHANGED <<objectsTypes, behaviorsTypes, callbacks, console, array>>

NextRandom ==
  \/ \E max \in Args : random(max)
  \/ \E min \in Args, max \in Args : randomInRange(min, max)
  \/ \E min \in Args, max \in Args, step \in Steps : randomWithStep(min, max, step)

SpecRandom == Init /\ [][NextRandom]_vars

(* ------------------------------ properties ---------------------------- *)

\* The outcome of a lookup that found its entry: the entry, no error, no
\* line on the console.
Found(ctor) == [ret |-> ctor, thrown |-> "none", out |-> <<>>]

\* The register function of each lifecycle kind.
RegisterFn(kind) ==
  CASE kind = "callbacksRuntimeSceneLoaded" -> "registerRuntimeSceneLoadedCallback"
    [] kind = "callbacksRuntimeSceneUnloaded" -> "registerRuntimeSceneUnloadedCallback"
    [] kind = "callbacksRuntimeScenePaused" -> "registerRuntimeScenePausedCallback"
    [] kind = "callbacksRuntimeSceneResumed" -> "registerRuntimeSceneResumedCallback"
    [] kind = "callbacksObjectDeletedFromScene" -> "registerObjectDeletedFromSceneCallback"

\* Number of entries of a list that are the callback c.
Count(list, c) == Cardinality({i \in 1..Len(list) : list[i] = c})

\* A console line mentions a name when the name is one of the pieces it was
\* concatenated from.
Mentions(text, name) == \E i \in 1..Len(text) : text[i] = name

\* C1: last write wins.  A registerObject(id, c) step makes the lookup of id
\* return c, and every step that is no registerObject of id leaves the
\* lookup of a registered id as it was; so the lookup of a registered id
\* returns the constructor of the most recent registration.  The same for
\* registerBehavior / getBehaviorConstructor.
C1_LastWriteWins ==
  [][\A id \in Ids :
       /\ IF call'.fn = "registerObject" /\ call'.name = id
          THEN getObjectConstructorResult(id)' = {Found(call'.arg)}
          ELSE ContainsKey(objectsTypes, id) =>
                 getObjectConstructorResult(id)' = getObjectConstructorResult(id)
       /\ IF call'.fn = "registerBehavior" /\ call'.name = id
          THEN getBehaviorConstructorResult(id)' = {Found(call'.arg)}
          ELSE ContainsKey(behaviorsTypes, id) =>
                 getBehaviorConstructorResult(id)' = getBehaviorConstructorResult(id)
    ]_vars

\* A lookup of "Foo" returned "Default" while "" holds another constructor:
\* "Foo" was registered, and the value is its own entry.
C1_Witness ==
  /\ call.fn = "getBehaviorConstructor" /\ call.name = "Foo"
  /\ call.ret = "Default" /\ call.out = <<>>
  /\ ContainsKey(behaviorsTypes, "") /\ behaviorsTypes[""] = "A"

\* C2: with "" registered, getObjectConstructor of an identifier that is
\* not registered returns what getObjectConstructor("") returns and writes
\* exactly one line, which mentions the identifier.
C2_FallbackToEmpty ==
  ( /\ call.fn = "getObjectConstructor"
    /\ call.name # undefined
    /\ ContainsKey(objectsTypes, "")
    /\ ~ContainsKey(objectsTypes, call.name) )
  => /\ call.thrown = "none"
     /\ \E r \in getObjectConstructorResult("") :
          r.thrown = "none" /\ r.ret = call.ret
     /\ Len(call.out) = 1
     /\ Mentions(call.out[1], call.name)

C2_Witness ==
  /\ call.fn = "getObjectConstructor" /\ call.name = "Foo"
  /\ ContainsKey(objectsTypes, "") /\ ~ContainsKey(objectsTypes, "Foo")
  /\ call.ret = objectsTypes[""]

\* The registry a lookup function reads.
RegistryOf(fn) ==
  IF fn = "getObjectConstructor" THEN objectsTypes ELSE behaviorsTypes

IsLookup(fn) == fn \in {"getObjectConstructor", "getBehaviorConstructor"}

\* C3 as stated: every lookup, in every reachable state, throws nothing and
\* returns a constructor registered in its registry.
C3_Total ==
  IsLookup(call.fn) =>
    call.thrown = "none" /\ call.ret \in Range(RegistryOf(call.fn))

\* C3 amended: in every state where "" is registered in the registry the
\* lookup reads, the lookup of any name (undefined included) throws nothing
\* and returns a constructor registered in that registry.
C3_TotalWithDefault ==
  (IsLookup(call.fn) /\ ContainsKey(RegistryOf(call.fn), "")) =>
    call.thrown = "none" /\ call.ret \in Range(RegistryOf(call.fn))

C3_Witness ==
  /\ call.fn = "getBehaviorConstructor" /\ call.name = "Foo"
  /\ ContainsKey(behaviorsTypes, "") /\ ~ContainsKey(behaviorsTypes, "Foo")
  /\ call.thrown = "none" /\ call.ret = behaviorsTypes[""]

\* C4: a call of registerGlobalCallbacks writes a warning, returns normally
\* and leaves both registries and the five callback lists unchanged.
C4_DeprecatedWarns ==
  /\ [](call.fn = "registerGlobalCallbacks" =>
          call.thrown = "none" /\ Len(call.out) = 1)
  /\ [][call'.fn = "registerGlobalCallbacks" =>
          UNCHANGED <<objectsTypes, behaviorsTypes, callbacks>>]_vars

\* A lookup that took the fallback path of the registry `types`: one
\* warning that mentions the name, then whatever get('') gives.
TookFallback(types) ==
  /\ Len(call.out) = 1
  /\ Mentions(call.out[1], call.name)
  /\ [ret |-> call.ret, thrown |-> call.thrown] \in Get(types, "")

\* C5: the namespaces are independent.  A lookup of the behavior of an
\* identifier that is registered as an object only takes the fallback path
\* and does not return the object constructor (unless that same constructor
\* is also the behavior registry's own); symmetrically for objects.
C5_IndependentNamespaces ==
  /\ ( /\ call.fn = "getBehaviorConstructor" /\ call.name # undefined
       /\ ContainsKey(objectsTypes, call.name)
       /\ ~ContainsKey(behaviorsTypes, call.name) )
     => /\ TookFallback(behaviorsTypes)
        /\ objectsTypes[call.name] \notin Range(behaviorsTypes)
             => call.ret # objectsTypes[call.name]
  /\ ( /\ call.fn = "getObjectConstructor" /\ call.name # undefined
       /\ ContainsKey(behaviorsTypes, call.name)
       /\ ~ContainsKey(objectsTypes, call.name) )
     => /\ TookFallback(objectsTypes)
        /\ behaviorsTypes[call.name] \notin Range(objectsTypes)
             => call.ret # behaviorsTypes[call.name]

C5_Witness ==
  /\ call.fn = "getBehaviorConstructor" /\ call.name = "Foo"
  /\ ContainsKey(objectsTypes, "Foo") /\ objectsTypes["Foo"] = "A"
  /\ ~ContainsKey(behaviorsTypes, "Foo")
  /\ ContainsKey(behaviorsTypes, "") /\ call.ret = "Default"
  /\ Len(call.out) = 1

C7_ClearEmptiesAll ==
  call.fn = "clearGlobalCallbacks" => \A k \in Kinds : callbacks[k] = <<>>

C7_Witness ==
  /\ call.fn = "clearGlobalCallbacks"
  /\ \A k \in Kinds : Len(callbacks[k]) = 0

\* C8: one entry per registration.  The lists start empty; a clear leaves
\* every list empty; a registration of c for kind k adds one to the number
\* of entries of list k that are c and leaves the number of every other
\* callback in it; every other step leaves list k as it is.
C8_OneEntryPerRegistration ==
  /\ \A k \in Kinds : callbacks[k] = <<>>
  /\ [][\A k \in Kinds :
          IF call'.fn = "clearGlobalCallbacks" THEN callbacks'[k] = <<>>
          ELSE IF call'.fn = RegisterFn(k)
          THEN \A c \in Callbacks :
                 Count(callbacks'[k], c) =
                   Count(callbacks[k], c) + (IF call'.arg = c THEN 1 ELSE 0)
          ELSE callbacks'[k] = callbacks[k]
       ]_vars

\* The same callback registered twice for one kind is held twice.
C8_Witness ==
  /\ callbacks["callbacksRuntimeSceneUnloaded"] = <<"c1", "c1">>
  /\ call.fn = "registerRuntimeSceneUnloadedCallback"

\* C9: a registration for one kind appends exactly one element, its
\* callback, to that kind's list and leaves the four other lists and both
\* registries unchanged.
C9_RegisterCallbackFrame ==
  [][\A k \in Kinds :
       call'.fn = RegisterFn(k) =>
         /\ callbacks'[k] = Append(callbacks[k], call'.arg)
         /\ \A j \in Kinds \ {k} : callbacks'[j] = callbacks[j]
         /\ objectsTypes' = objectsTypes
         /\ behaviorsTypes' = behaviorsTypes
    ]_vars

C9_Witness ==
  /\ call.fn = "registerRuntimeSceneResumedCallback"
  /\ Len(callbacks["callbacksRuntimeSceneResumed"]) = 1
  /\ Len(callbacks["callbacksRuntimeScenePaused"]) = 1
  /\ DOMAIN objectsTypes # {}

\* C10: a registry entry is never removed, and it changes only by a
\* registration of the same identifier in the same registry.
C10_EntriesPersist ==
  [][/\ \A id \in DOMAIN objectsTypes :
          /\ id \in DOMAIN objectsTypes'
          /\ ~(call'.fn = "registerObject" /\ call'.name = id)
               => objectsTypes'[id] = objectsTypes[id]
     /\ \A id \in DOMAIN behaviorsTypes :
          /\ id \in DOMAIN behaviorsTypes'
          /\ ~(call'.fn = "registerBehavior" /\ call'.name = id)
               => behaviorsTypes'[id] = behaviorsTypes[id]
    ]_vars

\* Both registries still hold their entries right after a clear.
C10_Witness ==
  /\ call.fn = "clearGlobalCallbacks"
  /\ DOMAIN objectsTypes = Ids
  /\ DOMAIN behaviorsTypes = Ids

\* The outcome the last call left in `call`, as a lookup outcome.
Outcome(c) == [ret |-> c.ret, thrown |-> c.thrown, out |-> c.out]

\* C11: lookups are read-only.  A getObjectConstructor or
\* getBehaviorConstructor step, found or fallback, leaves both registries
\* and the five callback lists as they were, and the outcome it had is still
\* an outcome of the same lookup in the state it leaves: a lookup that fell
\* back falls back and warns again.
C11_LookupReadOnly ==
  [][IsLookup(call'.fn) =>
       /\ objectsTypes' = objectsTypes
       /\ behaviorsTypes' = behaviorsTypes
       /\ callbacks' = callbacks
       /\ \A n \in Names :
            /\ (call'.fn = "getObjectConstructor" /\ call'.name = n) =>
                 Outcome(call') \in getObjectConstructorResult(n)'
            /\ (call'.fn = "getBehaviorConstructor" /\ call'.name = n) =>
                 Outcome(call') \in getBehaviorConstructorResult(n)'
    ]_vars

\* A fallback lookup of "Foo" has just returned the "" entry, and "Foo" is
\* still not in the registry.
C11_Witness ==
  /\ call.fn = "getObjectConstructor" /\ call.name = "Foo"
  /\ Len(call.out) = 1 /\ call.thrown = "none"
  /\ ContainsKey(objectsTypes, "") /\ call.ret = objectsTypes[""]
  /\ ~ContainsKey(objectsTypes, "Foo")
  /\ TotalCallbacks > 0

\* The name of the last call is an identifier its registry holds.
NameFound(types) == call.name # undefined /\ ContainsKey(types, call.name)

\* C12: a lookup writes a diagnostic exactly when it takes the fallback
\* path.  A lookup of a name its registry holds ("" included) returns that
\* entry, throws nothing and writes nothing; a lookup of any other name
\* writes one line; a registerObject or registerBehavior call, of a new or
\* of an existing identifier, writes nothing.
C12_DiagnosticIffFallback ==
  /\ IsLookup(call.fn) =>
       IF NameFound(RegistryOf(call.fn))
       THEN /\ call.out = <<>>
            /\ call.thrown = "none"
            /\ call.ret = RegistryOf(call.fn)[call.name]
       ELSE Len(call.out) = 1
  /\ call.fn \in {"registerObject", "registerBehavior"} =>
       call.out = <<>> /\ call.thrown = "none"

\* A lookup of "" found its entry without a diagnostic.
C12_Witness ==
  /\ call.fn = "getBehaviorConstructor" /\ call.name = ""
  /\ ContainsKey(behaviorsTypes, "") /\ call.ret = behaviorsTypes[""]
  /\ call.out = <<>>

\* C13: the fallback follows the current "" entry.  A lookup of undefined,
\* or of a name its registry does not hold, writes one line that mentions
\* the name and gives what get('') gives in the registry as it is now; and
\* a registration of "" with a constructor c makes c the result of every
\* fallback lookup from then on.
C13_FallbackFollowsDefault ==
  /\ []((IsLookup(call.fn) /\ ~NameFound(RegistryOf(call.fn))) =>
          /\ Len(call.out) = 1
          /\ Mentions(call.out[1], ToStr(call.name))
          /\ [ret |-> call.ret, thrown |-> call.thrown]
               \in Get(RegistryOf(call.fn), ""))
  /\ [][(call'.fn \in {"registerObject", "registerBehavior"} /\ call'.name = "") =>
          \A n \in Names :
            LET res == IF call'.fn = "registerObject"
                       THEN getObjectConstructorResult(n)'
                       ELSE getBehaviorConstructorResult(n)'
                types == IF call'.fn = "registerObject"
                         THEN objectsTypes' ELSE behaviorsTypes'
            IN (n = undefined \/ n \notin DOMAIN types)
               => \A r \in res :
                    r.ret = call'.arg /\ r.thrown = "none" /\ Len(r.out) = 1
       ]_vars

\* A lookup of undefined fell back to the behavior registry's own "" entry
\* while the object registry holds another one under "".
C13_Witness ==
  /\ call.fn = "getBehaviorConstructor" /\ call.name = undefined
  /\ ContainsKey(behaviorsTypes, "") /\ behaviorsTypes[""] = "A"
  /\ ContainsKey(objectsTypes, "") /\ objectsTypes[""] = "Default"
  /\ ContainsKey(behaviorsTypes, "Foo")
  /\ call.ret = "A" /\ Len(call.out) = 1

\* C14: remove(from) with 0 <= from < length removes exactly the element of
\* index from: nothing is thrown, the array gets one shorter, the elements
\* before from stay, and every element behind from moves down by one.
C14_RemoveShiftsDown ==
  [][LET from == call'.arg
     IN (call'.fn = "Array.prototype.remove" /\ from < Len(array)) =>
          /\ call'.thrown = "none"
          /\ Len(array') = Len(array) - 1
          /\ \A i \in 1..from : array'[i] = array[i]
          /\ \A i \in (from + 1)..(Len(array) - 1) : array'[i] = array[i + 1]
    ]_vars

\* The element of index 1 of a four-element array was removed and three
\* different elements are left.
C14_Witness ==
  /\ call.fn = "Array.prototype.remove" /\ call.arg = 1
  /\ call.thrown = "none"
  /\ array = <<"x", "y", "z">>

\* C15: for integer arguments, random(max) is 0 when max <= 0 and else an
\* integer of 0..max; randomInRange(min, max) is min when min >= max and
\* else an integer of min..max; randomWithStep(min, max, step) with step > 0
\* is min when min >= max and else min + k * step for a k >= 0, and not
\* above max.
C15_RandomRanges ==
  /\ call.fn = "random" =>
       LET max == call.arg[1]
       IN IF max <= 0 THEN call.ret = 0 ELSE call.ret \in 0..max
  /\ call.fn = "randomInRange" =>
       LET min == call.arg[1]
           max == call.arg[2]
       IN IF min >= max THEN call.ret = min ELSE call.ret \in min..max
  /\ (call.fn = "randomWithStep" /\ call.arg[3] > 0) =>
       LET min == call.arg[1]
           max == call.arg[2]
           step == call.arg[3]
       IN IF min >= max THEN call.ret = min
          ELSE /\ \E k \in 0..(max - min) : call.ret = min + k * step
               /\ call.ret <= max

\* randomWithStep(-3, 3, 2) returned 3 = -3 + 3 * 2, the largest step that
\* fits.
C15_Witness ==
  /\ call.fn = "randomWithStep"
  /\ call.arg = <<0 - 3, 3, 2>>
  /\ call.ret = 3
====
